---------------------------- MODULE Spec2Model ----------------------------
(***************************************************************************)
(* Model of the movie recommendation ETL pipeline (src/movie_pipeline.py): *)
(* MovieRecommendationPipeline.extract_movie_data, transform_data and      *)
(* load_data, and main() which runs them in that order.                    *)
(*                                                                         *)
(* Numbers are exact rationals <<n, d>> (d > 0, lowest terms); None / NaN  *)
(* is NULL.  Text is a sequence of one-character strings, so that joining  *)
(* and comma-splitting are computed character by character.  The record    *)
(* fields title, release_date, director, cast and keywords take no part in *)
(* any property checked below and are left out of the records.             *)
(***************************************************************************)
EXTENDS Integers, Sequences, FiniteSets, TLC

\* SeqsUpTo(S, n): the sequences over S of length at most n.
SeqsUpTo(S, n) == UNION {[1..k -> S] : k \in 0..n}

\* ------------------------------------------------------------------ bounds
\* Largest num_pages a run is started with.
MaxPages == 2
\* Largest number of items one page of /movie/popular lists.
MaxItems == 2
\* Largest number of load_data calls made against one store (SpecLoad).
MaxLoads == 2
\* Largest number of rows of a dataset given to load_data (SpecLoad).
MaxLoadRows == 2
\* Largest number of rows of a dataset given to transform_data (SpecNorm).
MaxRows == 2
\* Largest number of rows, and of genre names of one item (SpecGenre).
MaxGenreRows == 2
MaxGenres == 2

\* The item ids the catalog can list.
Ids == {1, 2}
\* The genre names an item's detail payload can carry (one of them is part
\* of another, one is empty).
GenreNames == {<<"a">>, <<"a", "b">>, <<>>}

\* ------------------------------------------------------------- arithmetic
NULL == <<>>

Abs(n) == IF n < 0 THEN -n ELSE n

RECURSIVE GCD(_, _)
GCD(a, b) == IF b = 0 THEN a ELSE GCD(b, a % b)

\* The rational n/d in lowest terms with a positive denominator (d # 0).
R(n, d) ==
    LET g == GCD(Abs(n), Abs(d))
        s == IF d < 0 THEN -1 ELSE 1
    IN  <<(s * n) \div g, (s * d) \div g>>

Num(n) == <<n, 1>>
RAdd(a, b) == R(a[1] * b[2] + b[1] * a[2], a[2] * b[2])
RSub(a, b) == R(a[1] * b[2] - b[1] * a[2], a[2] * b[2])
RMul(a, b) == R(a[1] * b[1], a[2] * b[2])
RDiv(a, b) == R(a[1] * b[2], a[2] * b[1])
RLe(a, b) == a[1] * b[2] <= b[1] * a[2]

RMin(S) == CHOOSE x \in S : \A y \in S : RLe(x, y)
RMax(S) == CHOOSE x \in S : \A y \in S : RLe(y, x)

RECURSIVE RSum(_)
RSum(s) == IF s = <<>> THEN Num(0) ELSE RAdd(Head(s), RSum(Tail(s)))

Range(s) == {s[i] : i \in DOMAIN s}

\* ------------------------------------------------------------------- text
\* sep.join(names)
RECURSIVE Join(_, _)
Join(names, sep) ==
    IF names = <<>> THEN <<>>
    ELSE IF Len(names) = 1 THEN names[1]
    ELSE names[1] \o <<sep>> \o Join(Tail(names), sep)

\* s.split(sep): the segments of s between separators, empty ones included.
RECURSIVE SplitFrom(_, _, _)
SplitFrom(s, sep, cur) ==
    IF s = <<>> THEN <<cur>>
    ELSE IF Head(s) = sep THEN <<cur>> \o SplitFrom(Tail(s), sep, <<>>)
    ELSE SplitFrom(Tail(s), sep, Append(cur, Head(s)))

Split(s, sep) == SplitFrom(s, sep, <<>>)

\* pat in x
Contains(x, pat) ==
    \E i \in 1..(Len(x) - Len(pat) + 1) : SubSeq(x, i, i + Len(pat) - 1) = pat


\* ------------------------------------------------------ the catalog's data
\* What GET /movie/popular lists for an item: movie['id'], movie.get(...).
Summary(id) ==
    IF id = 1
    THEN [id |-> 1, popularity |-> Num(4), vote_average |-> Num(8),
          vote_count |-> Num(10)]
    ELSE [id |-> id, popularity |-> Num(1), vote_average |-> Num(6),
          vote_count |-> Num(2)]

\* What GET /movie/{id} returns: genre names, and runtime, budget, revenue
\* (NULL where the payload has no such key).
Details(id) ==
    IF id = 1
    THEN [genres |-> << <<"a">>, <<"b">> >>, runtime |-> Num(90),
          budget |-> Num(100), revenue |-> Num(300)]
    ELSE [genres |-> << >>, runtime |-> NULL,
          budget |-> NULL, revenue |-> Num(500)]

\* The movie_data dictionary built from a summary and its detail payload.
MovieData(movie, movie_details) ==
    [movie_id     |-> movie.id,
     popularity   |-> movie.popularity,
     vote_average |-> movie.vote_average,
     vote_count   |-> movie.vote_count,
     genres       |-> Join(movie_details.genres, ","),
     runtime      |-> movie_details.runtime,
     budget       |-> movie_details.budget,
     revenue      |-> movie_details.revenue]

\* ---------------------------------------------------------- transform_data
numerical_cols == {"popularity", "vote_average", "vote_count", "runtime", "roi"}

Column(df, c) == [i \in DOMAIN df |-> df[i][c]]

\* Series.mean(): the mean of the non-null values, NaN when there is none.
Mean(col) ==
    LET vals == SelectSeq(col, LAMBDA v : v # NULL)
    IN  IF vals = <<>> THEN NULL ELSE RDiv(RSum(vals), Num(Len(vals)))

\* Series.fillna(value)
FillNa(col, value) == [i \in DOMAIN col |-> IF col[i] = NULL THEN value ELSE col[i]]

\* np.where(budget != 0, (revenue - budget) / budget, 0), row by row, on the
\* filled budget and revenue.
Roi(budget, revenue) ==
    IF budget # Num(0) THEN RDiv(RSub(revenue, budget), budget) ELSE Num(0)

\* The columns as they stand after imputation and the roi computation,
\* before scaling: what the scaler is fitted on.
Imputed(df) ==
    LET runtime == FillNa(Column(df, "runtime"), Mean(Column(df, "runtime")))
        budget  == FillNa(Column(df, "budget"), Num(0))
        revenue == FillNa(Column(df, "revenue"), Num(0))
    IN  [i \in DOMAIN df |->
            [movie_id     |-> df[i].movie_id,
             popularity   |-> df[i].popularity,
             vote_average |-> df[i].vote_average,
             vote_count   |-> df[i].vote_count,
             genres       |-> df[i].genres,
             runtime      |-> runtime[i],
             budget       |-> budget[i],
             revenue      |-> revenue[i],
             roi          |-> Roi(budget[i], revenue[i])]]

\* MinMaxScaler().fit_transform on one column: NaN is disregarded in the fit
\* and kept by the transform; a zero range is replaced by 1.
MinMaxScale(col) ==
    LET vals == Range(col) \ {NULL}
    IN  IF vals = {} THEN col
        ELSE LET data_min   == RMin(vals)
                 data_range == RSub(RMax(vals), data_min)
                 scale      == IF data_range = Num(0) THEN Num(1)
                               ELSE RDiv(Num(1), data_range)
             IN  [i \in DOMAIN col |->
                    IF col[i] = NULL THEN NULL
                    ELSE RMul(RSub(col[i], data_min), scale)]

\* The separators get_dummies wraps a text in, and a tag's search pattern.
Wrapped(s, sep) == <<sep>> \o s \o <<sep>>

\* Variant: the bare tag is searched for.
TagPatternBare(t, sep) == t

TagPattern(t, sep) == <<sep>> \o t \o <<sep>>

\* Series.str.get_dummies(sep): the tags are the non-empty segments of all
\* the wrapped texts; a row has a 1 under a tag when the tag, wrapped in
\* separators, occurs in the row's wrapped text.
GetDummies(col, sep) ==
    LET tags == UNION {Range(Split(Wrapped(col[i], sep), sep)) : i \in DOMAIN col}
                    \ {<<>>}
    IN  [columns |-> tags,
         rows    |-> [i \in DOMAIN col |->
                        [t \in tags |->
                            IF Contains(Wrapped(col[i], sep), TagPattern(t, sep))
                            THEN 1 ELSE 0]]]

\* transform_data on a frame that has its columns (a non-empty record list):
\* the processed frame and the feature frame.
TransformData(df) ==
    LET pre    == Imputed(df)
        scaled == [c \in numerical_cols |-> MinMaxScale(Column(pre, c))]
        genres_df == GetDummies(Column(df, "genres"), ",")
        movies == [i \in DOMAIN df |->
                     [pre[i] EXCEPT !.popularity   = scaled["popularity"][i],
                                    !.vote_average = scaled["vote_average"][i],
                                    !.vote_count   = scaled["vote_count"][i],
                                    !.runtime      = scaled["runtime"][i],
                                    !.roi          = scaled["roi"][i]]]
    IN  [movies   |-> movies,
         features |-> [columns |-> genres_df.columns,
                       rows |-> [i \in DOMAIN df |->
                                   [popularity   |-> movies[i].popularity,
                                    vote_average |-> movies[i].vote_average,
                                    vote_count   |-> movies[i].vote_count,
                                    runtime      |-> movies[i].runtime,
                                    roi          |-> movies[i].roi,
                                    genre        |-> genres_df.rows[i]]]]]

\* ------------------------------------------------------------------- state
VARIABLES
    pc,            \* where the run stands
    err,           \* the exception that ended the run, or "none"
    num_pages,     \* extract_movie_data's argument
    page,          \* the page loop's variable
    movies,        \* the ids listed by the current page's response
    idx,           \* position of the item loop in movies
    movies_list,   \* the records accumulated by the extraction
    processed_df,  \* load_data's movies_df
    features_df,   \* load_data's features_df
    store,         \* the SQLite file: tables movies, movie_features; views
    conns,         \* connections to the store that are open
    calls,         \* load_data calls started against the store
    pre_store,     \* history: the store as the current run found it
    cooldownOwed,  \* history: a detail request was issued, no sleep since
    pagesTried,    \* history: the page numbers requested, in order
    skipped,       \* history: the number of page requests answered non-2xx
    before,        \* history: the record list when the current page was requested
    listed,        \* history: the ids the current page's response listed, if a 200
    detailed       \* history: <<id, outcome>> of the detail requests issued
                   \* since the current page was requested

vars == <<pc, err, num_pages, page, movies, idx, movies_list, processed_df,
          features_df, store, conns, calls, pre_store, cooldownOwed,
          pagesTried, skipped, before, listed, detailed>>

extractVars == <<num_pages, page, movies, idx, movies_list>>
extractHistory == <<cooldownOwed, pagesTried, skipped, before, listed, detailed>>
loadArgs == <<processed_df, features_df>>
storeVars == <<store, conns, calls, pre_store>>

ExtractPcs == {"page_loop", "page_get", "item_loop", "detail_get", "sleep"}

\* A frame with no rows, and a table that does not exist.
EmptyFrame == [columns |-> {}, rows |-> <<>>]
NoTable == [exists |-> FALSE, columns |-> {}, rows |-> <<>>]
FreshStore == [movies |-> NoTable, features |-> NoTable, views |-> {}]

\* What a request can come to: a 200 response, a response with another
\* status code, or requests.get raising (no response at all).
Outcomes == {"ok", "http_error", "transport_error"}

\* ------------------------------------------------------ extract_movie_data
\* for page in range(1, num_pages + 1); after the last page the record list
\* is returned as a frame and main hands it to transform_data.
PageLoop ==
    /\ pc = "page_loop"
    /\ IF page < num_pages
       THEN /\ page' = page + 1
            /\ pc' = "page_get"
       ELSE /\ page' = page
            /\ pc' = "transform"
    /\ UNCHANGED <<err, num_pages, movies, idx, movies_list>>
    /\ UNCHANGED <<loadArgs, storeVars, extractHistory>>

\* response = requests.get(url, params) for the page, and the status test.
\* results is what the response's body lists; it is read only on a 200.
PageGet ==
    /\ pc = "page_get"
    /\ \E outcome \in Outcomes, results \in SeqsUpTo(Ids, MaxItems) :
        /\ outcome = "transport_error" => results = <<>>
        /\ pagesTried' = Append(pagesTried, page)
        /\ skipped' = IF outcome = "http_error" THEN skipped + 1 ELSE skipped
        /\ before' = movies_list
        /\ listed' = IF outcome = "ok" THEN results ELSE <<>>
        /\ detailed' = <<>>
        /\ CASE outcome = "transport_error" ->
                  /\ pc' = "raised"
                  /\ err' = "ConnectionError"
                  /\ UNCHANGED <<movies, idx>>
             [] outcome = "http_error" ->
                  /\ pc' = "page_loop"
                  /\ UNCHANGED <<err, movies, idx>>
             [] outcome = "ok" ->
                  /\ movies' = results
                  /\ idx' = 0
                  /\ pc' = "item_loop"
                  /\ err' = err
    /\ UNCHANGED <<num_pages, page, movies_list, cooldownOwed>>
    /\ UNCHANGED <<loadArgs, storeVars>>

\* for movie in movies (the current item is movies[idx]); after the last
\* item the page is reported as processed.
ItemLoop ==
    /\ pc = "item_loop"
    /\ IF idx < Len(movies)
       THEN /\ idx' = idx + 1
            /\ pc' = "detail_get"
       ELSE /\ idx' = idx
            /\ pc' = "page_loop"
    /\ UNCHANGED <<err, num_pages, page, movies, movies_list>>
    /\ UNCHANGED <<loadArgs, storeVars, extractHistory>>

\* Variant: the summary is recorded whatever the detail response's status.
AfterDetailUnchecked(list, movie_id, outcome) ==
    Append(list, MovieData(Summary(movie_id), Details(movie_id)))

\* The record list after a detail response with the given outcome.
AfterDetail(list, movie_id, outcome) ==
    IF outcome = "ok"
    THEN Append(list, MovieData(Summary(movie_id), Details(movie_id)))
    ELSE list

\* Variant: time.sleep inside the status test, reached on a 200 only.
AfterResponseSleepOn200(outcome) == IF outcome = "ok" THEN "sleep" ELSE "item_loop"

\* Where the item loop's body stands after a detail response (of either
\* status) has been handled: at time.sleep, which is outside the status test.
AfterResponse(outcome) == "sleep"

\* details_response = requests.get(details_url, ...), the status test and
\* the append.
DetailGet ==
    /\ pc = "detail_get"
    /\ \E outcome \in Outcomes :
        /\ detailed' = Append(detailed, <<movies[idx], outcome>>)
        /\ cooldownOwed' = TRUE
        /\ IF outcome = "transport_error"
           THEN /\ pc' = "raised"
                /\ err' = "ConnectionError"
                /\ UNCHANGED movies_list
           ELSE /\ movies_list' = AfterDetail(movies_list, movies[idx], outcome)
                /\ pc' = AfterResponse(outcome)
                /\ err' = err
    /\ UNCHANGED <<num_pages, page, movies, idx, pagesTried, skipped, before, listed>>
    /\ UNCHANGED <<loadArgs, storeVars>>

\* time.sleep(0.25), the last statement of the item loop's body.
Sleep ==
    /\ pc = "sleep"
    /\ cooldownOwed' = FALSE
    /\ pc' = "item_loop"
    /\ UNCHANGED <<err, extractVars>>
    /\ UNCHANGED <<pagesTried, skipped, before, listed, detailed>>
    /\ UNCHANGED <<loadArgs, storeVars>>

\* ---------------------------------------------------------- transform_data
\* main: processed_df, features_df = pipeline.transform_data(movies_df).
\* pd.DataFrame([]) has no columns, so on an empty record list the first
\* column access, df['release_date'], raises KeyError.
TransformStep ==
    /\ pc = "transform"
    /\ IF movies_list = <<>>
       THEN /\ pc' = "raised"
            /\ err' = "KeyError"
            /\ UNCHANGED loadArgs
       ELSE /\ processed_df' = [columns |-> {},
                                rows |-> TransformData(movies_list).movies]
            /\ features_df' = TransformData(movies_list).features
            /\ pc' = "load_connect"
            /\ err' = err
    /\ pagesTried' = <<>>
    /\ skipped' = 0
    /\ before' = <<>>
    /\ listed' = <<>>
    /\ detailed' = <<>>
    /\ UNCHANGED <<extractVars, storeVars, cooldownOwed>>

\* --------------------------------------------------------------- load_data
\* Variant: if_exists='append', an existing table is kept as it is.
ToSqlCreateAppend(table, frame) ==
    IF table.exists THEN table
    ELSE [exists |-> TRUE, columns |-> frame.columns, rows |-> <<>>]

\* DataFrame.to_sql(name, conn, if_exists='replace') first drops an existing
\* table and creates it anew from the frame's columns.  Both are DDL
\* statements, which sqlite3 runs outside any transaction: they are durable
\* at once.
ToSqlCreate(table, frame) ==
    [exists |-> TRUE, columns |-> frame.columns, rows |-> <<>>]

\* ... and then inserts the frame's rows into the table in one transaction,
\* committed when the last row is in.
ToSqlInsert(table, frame) ==
    [table EXCEPT !.rows = table.rows \o frame.rows]

\* CREATE VIEW IF NOT EXISTS name: whether the statement succeeds, and the
\* views after it.
CreateView(views, name) == [ok |-> TRUE, views |-> views \cup {name}]

\* LIMIT 100 of the top_rated_movies view.
TopRatedLimit == 100

\* What SELECT * FROM top_rated_movies returns from the movies rows: the
\* positions of the rows whose vote_count exceeds AVG(vote_count) (a NULL
\* does not), the TopRatedLimit of them with the highest vote_average (NULL
\* sorts last) when there are more.
TopRated(rows) ==
    LET avg == Mean(Column(rows, "vote_count"))
        Q   == {i \in DOMAIN rows :
                  /\ avg # NULL
                  /\ rows[i].vote_count # NULL
                  /\ ~RLe(rows[i].vote_count, avg)}
        Before(i, j) == \/ rows[j].vote_average = NULL
                        \/ /\ rows[i].vote_average # NULL
                           /\ RLe(rows[j].vote_average, rows[i].vote_average)
    IN  IF Cardinality(Q) <= TopRatedLimit THEN Q
        ELSE CHOOSE S \in SUBSET Q :
                /\ Cardinality(S) = TopRatedLimit
                /\ \A i \in S, j \in Q \ S : Before(i, j)

\* What SELECT * FROM genre_stats returns: one row per distinct genres text.
GenreStats(rows) ==
    {[genres         |-> g,
      movie_count    |-> Len(SelectSeq(rows, LAMBDA r : r.genres = g)),
      avg_rating     |-> Mean(Column(SelectSeq(rows, LAMBDA r : r.genres = g),
                                     "vote_average")),
      avg_popularity |-> Mean(Column(SelectSeq(rows, LAMBDA r : r.genres = g),
                                     "popularity"))]
        : g \in Range(Column(rows, "genres"))}

\* load_data is entered: conn = sqlite3.connect(self.db_name)
LoadConnect ==
    /\ pc = "load_connect"
    /\ conns' = conns + 1
    /\ calls' = calls + 1
    /\ pre_store' = store
    /\ pc' = "movies_create"
    /\ UNCHANGED <<err, extractVars, loadArgs, store, extractHistory>>

\* movies_df.to_sql('movies', ...), the drop and create
MoviesCreate ==
    /\ pc = "movies_create"
    /\ store' = [store EXCEPT !.movies = ToSqlCreate(@, processed_df)]
    /\ pc' = "movies_insert"
    /\ UNCHANGED <<err, extractVars, loadArgs, conns, calls, pre_store>>
    /\ UNCHANGED extractHistory

\* movies_df.to_sql('movies', ...), the insert and its commit
MoviesInsert ==
    /\ pc = "movies_insert"
    /\ store' = [store EXCEPT !.movies = ToSqlInsert(@, processed_df)]
    /\ pc' = "features_create"
    /\ UNCHANGED <<err, extractVars, loadArgs, conns, calls, pre_store>>
    /\ UNCHANGED extractHistory

\* features_df.to_sql('movie_features', ...), the drop and create
FeaturesCreate ==
    /\ pc = "features_create"
    /\ store' = [store EXCEPT !.features = ToSqlCreate(@, features_df)]
    /\ pc' = "features_insert"
    /\ UNCHANGED <<err, extractVars, loadArgs, conns, calls, pre_store>>
    /\ UNCHANGED extractHistory

\* features_df.to_sql('movie_features', ...), the insert and its commit
FeaturesInsert ==
    /\ pc = "features_insert"
    /\ store' = [store EXCEPT !.features = ToSqlInsert(@, features_df)]
    /\ pc' = "view_top_rated"
    /\ UNCHANGED <<err, extractVars, loadArgs, conns, calls, pre_store>>
    /\ UNCHANGED extractHistory

\* conn.execute("CREATE VIEW IF NOT EXISTS ..."), for either view
ExecuteCreateView(at, name, next) ==
    /\ pc = at
    /\ LET r == CreateView(store.views, name)
       IN  IF r.ok
           THEN /\ store' = [store EXCEPT !.views = r.views]
                /\ pc' = next
                /\ err' = err
           ELSE /\ pc' = "raised"
                /\ err' = "OperationalError"
                /\ UNCHANGED store
    /\ UNCHANGED <<extractVars, loadArgs, conns, calls, pre_store>>
    /\ UNCHANGED extractHistory

ViewTopRated == ExecuteCreateView("view_top_rated", "top_rated_movies", "view_genre_stats")

ViewGenreStats == ExecuteCreateView("view_genre_stats", "genre_stats", "commit")

\* conn.commit(); conn.close(); load_data returns.
CommitClose ==
    /\ pc = "commit"
    /\ conns' = conns - 1
    /\ pc' = "done"
    /\ UNCHANGED <<err, extractVars, loadArgs, store, calls, pre_store>>
    /\ UNCHANGED extractHistory

\* The statements of load_data that the store can fail.  A failed insert is
\* rolled back, which leaves the table as the drop and create left it.
StorageSteps == {"movies_create", "movies_insert", "features_create",
                 "features_insert", "view_top_rated", "view_genre_stats",
                 "commit"}

\* A statement fails with a storage error: it propagates out of load_data
\* (nothing catches it; conn.close() is not reached).
StorageError ==
    /\ pc \in StorageSteps
    /\ pc' = "raised"
    /\ err' = "StorageError"
    /\ UNCHANGED <<extractVars, loadArgs, storeVars, extractHistory>>

\* ------------------------------------------------------------- main, Spec
\* One run of main() against a store that does not exist yet.
Init ==
    /\ pc = "page_loop"
    /\ err = "none"
    /\ num_pages \in 0..MaxPages
    /\ page = 0
    /\ movies = <<>>
    /\ idx = 0
    /\ movies_list = <<>>
    /\ processed_df = EmptyFrame
    /\ features_df = EmptyFrame
    /\ store = FreshStore
    /\ conns = 0
    /\ calls = 0
    /\ pre_store = FreshStore
    /\ cooldownOwed = FALSE
    /\ pagesTried = <<>>
    /\ skipped = 0
    /\ before = <<>>
    /\ listed = <<>>
    /\ detailed = <<>>

Extract == PageLoop \/ PageGet \/ ItemLoop \/ DetailGet \/ Sleep

Load ==
    \/ LoadConnect
    \/ MoviesCreate
    \/ MoviesInsert
    \/ FeaturesCreate
    \/ FeaturesInsert
    \/ ViewTopRated
    \/ ViewGenreStats
    \/ CommitClose
    \/ StorageError

Next == Extract \/ TransformStep \/ Load

Spec == Init /\ [][Next]_vars

\* ------------------------------------------- repeated load_data, SpecLoad
\* The record list of the catalog items with the given ids.
RecordsOf(ids) == [i \in DOMAIN ids |-> MovieData(Summary(ids[i]), Details(ids[i]))]

\* The frame pairs load_data is called with: transform_data's output on the
\* non-empty record lists of at most MaxLoadRows catalog items.
LoadInputs ==
    {TransformData(RecordsOf(ids)) : ids \in SeqsUpTo(Ids, MaxLoadRows) \ {<<>>}}

InitLoad ==
    /\ pc = "idle"
    /\ err = "none"
    /\ num_pages = 0
    /\ page = 0
    /\ movies = <<>>
    /\ idx = 0
    /\ movies_list = <<>>
    /\ processed_df = EmptyFrame
    /\ features_df = EmptyFrame
    /\ store = FreshStore
    /\ conns = 0
    /\ calls = 0
    /\ pre_store = FreshStore
    /\ cooldownOwed = FALSE
    /\ pagesTried = <<>>
    /\ skipped = 0
    /\ before = <<>>
    /\ listed = <<>>
    /\ detailed = <<>>

\* pipeline.load_data(processed_df, features_df), once the previous call has
\* returned or raised.
CallLoad ==
    /\ pc \in {"idle", "done", "raised"}
    /\ calls < MaxLoads
    /\ \E in \in LoadInputs :
        /\ processed_df' = [columns |-> {}, rows |-> in.movies]
        /\ features_df' = in.features
    /\ pc' = "load_connect"
    /\ err' = "none"
    /\ UNCHANGED <<extractVars, storeVars, extractHistory>>

NextLoad == CallLoad \/ Load

SpecLoad == InitLoad /\ [][NextLoad]_vars

\* ------------------------------------ transform_data alone, SpecNorm/Genre
\* A record list with the rows numbered as movie ids.
Numbered(rows) == [i \in DOMAIN rows |-> [rows[i] EXCEPT !.movie_id = i]]

\* Records that vary in the numeric fields (absent ones included).
NormRows ==
    [movie_id     : {0},
     popularity   : {NULL, Num(1), Num(4)},
     vote_average : {NULL, Num(6)},
     vote_count   : {NULL, Num(2)},
     genres       : {<<"a">>},
     runtime      : {NULL, Num(90), Num(120)},
     budget       : {NULL, Num(0), Num(100)},
     revenue      : {NULL, Num(300)}]

\* Records that vary in the genres text: the join of up to MaxGenres names.
GenreRows ==
    [movie_id     : {0},
     popularity   : {Num(4)},
     vote_average : {Num(8)},
     vote_count   : {Num(10)},
     genres       : {Join(names, ",") : names \in SeqsUpTo(GenreNames, MaxGenres)},
     runtime      : {Num(90)},
     budget       : {Num(100)},
     revenue      : {Num(300)}]

InitTransform(datasets) ==
    /\ pc = "transform"
    /\ err = "none"
    /\ num_pages = 0
    /\ page = 0
    /\ movies = <<>>
    /\ idx = 0
    /\ movies_list \in datasets
    /\ processed_df = EmptyFrame
    /\ features_df = EmptyFrame
    /\ store = FreshStore
    /\ conns = 0
    /\ calls = 0
    /\ pre_store = FreshStore
    /\ cooldownOwed = FALSE
    /\ pagesTried = <<>>
    /\ skipped = 0
    /\ before = <<>>
    /\ listed = <<>>
    /\ detailed = <<>>

InitNorm == InitTransform({Numbered(d) : d \in SeqsUpTo(NormRows, MaxRows)})

InitGenre == InitTransform({Numbered(d) : d \in SeqsUpTo(GenreRows, MaxGenreRows)})

NextTransform == TransformStep

SpecNorm == InitNorm /\ [][NextTransform]_vars

SpecGenre == InitGenre /\ [][NextTransform]_vars

\* ------------------------------------------------------------- properties

\* C1: the extraction never aborts on a failed fetch, whatever the failure
\* (a raised transport error as well as a non-2xx status): the pages are
\* requested in increasing order 1, 2, ..., and when the extraction is over
\* every page 1..num_pages has been requested.
C1_ExtractionNeverAborts ==
    /\ err # "ConnectionError"
    /\ \A i \in DOMAIN pagesTried : pagesTried[i] = i
    /\ pc = "transform" => Len(pagesTried) = num_pages

\* The extraction is running, has just returned, or has raised.
InExtraction == pc \in ExtractPcs \cup {"transform"} \/ err = "ConnectionError"

\* The complete records of the items whose detail request, issued since the
\* current page was requested, returned 200, in request order.
Enriched ==
    LET ok == SelectSeq(detailed, LAMBDA d : d[2] = "ok")
    IN  [i \in DOMAIN ok |-> MovieData(Summary(ok[i][1]), Details(ok[i][1]))]

\* C2: at every point of the extraction, what a page has added to the record
\* list is exactly the complete records of its items whose detail request
\* returned 200; detail requests are issued for the items a 200 page
\* response listed and for nothing else (none for a page of another status,
\* which adds no record), in listing order; and when a page is finished
\* every one of its items has been requested, whatever became of the items
\* before it.
C2_RecordIffPageAndDetailSucceeded ==
    InExtraction =>
        /\ movies_list = before \o Enriched
        /\ Len(detailed) <= Len(listed)
        /\ \A i \in DOMAIN detailed : detailed[i][1] = listed[i]
        /\ pc \in {"page_loop", "transform"} => Len(detailed) = Len(listed)

\* C2's case: the extraction is over, a page came back non-2xx, and on the
\* last page an item's detail failed and a later item's detail succeeded.
C2_Witness ==
    /\ pc = "transform"
    /\ skipped > 0
    /\ \E i, j \in DOMAIN detailed :
          /\ i < j
          /\ detailed[i][2] = "http_error"
          /\ detailed[j][2] = "ok"
    /\ movies_list # <<>>

\* C3: no two records of the extraction, and no two rows of the loaded
\* movies table, have the same movie_id.
C3_MovieIdUnique ==
    /\ \A i, j \in DOMAIN movies_list :
          movies_list[i].movie_id = movies_list[j].movie_id => i = j
    /\ \A i, j \in DOMAIN store.movies.rows :
          store.movies.rows[i].movie_id = store.movies.rows[j].movie_id => i = j

\* C4: once a detail request has been issued, whatever its outcome, the next
\* thing the run does is the cooldown (unless the request raised, and the
\* run is over): no request of either kind is issued while a cooldown is
\* owed.
C4_CooldownAfterEveryDetail ==
    /\ cooldownOwed => pc \in {"sleep", "raised"}
    /\ pc \in {"page_get", "detail_get"} => ~cooldownOwed

\* C4's case: a request is about to be issued after a detail request that
\* came back non-2xx.
C4_Witness ==
    /\ pc \in {"page_get", "detail_get"}
    /\ detailed # <<>>
    /\ detailed[Len(detailed)][2] = "http_error"

\* A frame as a table of the store.
AsTable(frame) == [exists |-> TRUE, columns |-> frame.columns, rows |-> frame.rows]

\* C5: a load_data call fails only if the store fails a statement (never
\* because tables or views exist already), and when a call has returned,
\* both tables hold exactly the rows of that call's frames, both views exist
\* and read from those rows.
C5_LoadReplaces ==
    /\ pc = "raised" => err = "StorageError"
    /\ pc = "done" =>
          /\ store.movies = AsTable(processed_df)
          /\ store.features = AsTable(features_df)
          /\ store.views = {"top_rated_movies", "genre_stats"}
          /\ TopRated(store.movies.rows) = TopRated(processed_df.rows)
          /\ GenreStats(store.movies.rows) = GenreStats(processed_df.rows)

\* C5's case: the second call has returned, and the store it found held the
\* very same dataset, views included.
C5_Witness ==
    /\ pc = "done"
    /\ calls = 2
    /\ pre_store.movies = AsTable(processed_df)
    /\ pre_store.features = AsTable(features_df)
    /\ pre_store.views = {"top_rated_movies", "genre_stats"}
    /\ Len(processed_df.rows) = 2

\* C6: when load_data has raised, each table holds either what the run
\* found or the run's frame, and the two tables come from the same run.
C6_FailureLeavesStoreConsistent ==
    pc = "raised" =>
        /\ store.movies \in {pre_store.movies, AsTable(processed_df)}
        /\ store.features \in {pre_store.features, AsTable(features_df)}
        /\ \/ /\ store.movies = pre_store.movies
              /\ store.features = pre_store.features
           \/ /\ store.movies = AsTable(processed_df)
              /\ store.features = AsTable(features_df)

\* C7: when the extraction ends with no record, the run goes on without
\* error (the store failing a statement aside), and when it is done both
\* tables exist with no rows and both views exist.
C7_EmptyExtractionCompletes ==
    (pc \notin ExtractPcs /\ err # "ConnectionError" /\ movies_list = <<>>) =>
        /\ err \in {"none", "StorageError"}
        /\ pc = "done" =>
              /\ store.movies.exists /\ store.movies.rows = <<>>
              /\ store.features.exists /\ store.features.rows = <<>>
              /\ store.views = {"top_rated_movies", "genre_stats"}

\* The value (x - min) / (max - min) of position i in a column without NULL,
\* 0 when the column's values are all equal.
Rescaled(col, i) ==
    LET mn == RMin(Range(col))
        mx == RMax(Range(col))
    IN  IF mn = mx THEN Num(0) ELSE RDiv(RSub(col[i], mn), RSub(mx, mn))

\* C8: after transform_data on a non-empty dataset, every value of the five
\* normalized columns is a number in [0, 1], equal to (x - min) / (max - min)
\* over the column as it stands after imputation and the roi computation,
\* and 0 when the column's values are all equal.  (The runtime column of a
\* dataset with no runtime at all is left aside.)
C8_NormalizedInUnitInterval ==
    pc = "load_connect" =>
        \A c \in numerical_cols :
            LET col == Column(Imputed(movies_list), c)
            IN  (c = "runtime" /\ Range(col) = {NULL}) \/
                \A i \in DOMAIN movies_list :
                    LET v == processed_df.rows[i][c]
                    IN  /\ v # NULL
                        /\ features_df.rows[i][c] = v
                        /\ RLe(Num(0), v) /\ RLe(v, Num(1))
                        /\ NULL \notin Range(col)
                        /\ v = Rescaled(col, i)

\* The genre tokens of a genres text: its comma-separated segments, the
\* empty ones aside.
Tokens(s) == Range(Split(s, ",")) \ {<<>>}

\* C9: after transform_data the feature frame has one genre column per
\* distinct token of the dataset's genres texts; in every row the columns
\* valued 1 are exactly the tokens of the row's own text and the others are
\* 0 (so a row with an empty text is all 0 and adds no column); and the
\* feature frame has the processed frame's rows, in its order, which is the
\* order of the records.
C9_GenreOneHot ==
    pc = "load_connect" =>
        /\ features_df.columns = UNION {Tokens(movies_list[i].genres) : i \in DOMAIN movies_list}
        /\ Len(features_df.rows) = Len(movies_list)
        /\ Len(processed_df.rows) = Len(movies_list)
        /\ \A i \in DOMAIN movies_list :
              LET row == features_df.rows[i]
              IN  /\ DOMAIN row.genre = features_df.columns
                  /\ \A t \in features_df.columns : row.genre[t] \in {0, 1}
                  /\ {t \in features_df.columns : row.genre[t] = 1}
                        = Tokens(movies_list[i].genres)
                  /\ processed_df.rows[i].movie_id = movies_list[i].movie_id
                  /\ processed_df.rows[i].genres = movies_list[i].genres
                  /\ \A c \in numerical_cols : row[c] = processed_df.rows[i][c]

\* C9's case: a transformed dataset with a row of two tokens, a row with an
\* empty text, and a token that is part of another row's token.
C9_Witness ==
    /\ pc = "load_connect"
    /\ Len(movies_list) = 2
    /\ movies_list[1].genres = <<"a", ",", "a", "b">>
    /\ movies_list[2].genres = <<>>
    /\ Cardinality(features_df.columns) = 2
    /\ \A t \in features_df.columns : features_df.rows[2].genre[t] = 0

\* C10: no connection is open once load_data has returned or raised.
C10_ConnectionReleased ==
    pc \in {"idle", "done", "raised"} => conns = 0
=============================================================================
